---- MODULE Spec2Model ----
(***************************************************************************)
(* Model of the equipment dashboard's data pipeline:                       *)
(*   - atualizar_mes.py : monthly ingestion (main, padronizar_colunas,     *)
(*     validar_colunas_obrigatorias, integrar_os, recalcular_relatorio);   *)
(*   - dados.py : the dashboard loader (load_data) and its helpers;        *)
(*   - Visao_Geral.py, pages/1_Analise_Mensal.py, pages/2_Auditoria.py :   *)
(*     the figures the dashboard pages compute from what load_data gives.  *)
(* The state is the workbook NFxPRODUTO__1_.xlsx (sheets NOTAS, OS,        *)
(* config, RELATORIO, CONTRATOS), the position of a running ingestion,     *)
(* the result of the last load_data and the figures of the last page.      *)
(*                                                                         *)
(* Encodings.  A nullable cell is a sequence: <<>> is NaN/None/NaT-like,   *)
(* <<v>> holds v.  A unit identifier, after astype(str), is a sequence of  *)
(* one-character strings.  A closing date is a natural number, 0 is NaT.   *)
(* A free text of the Almoxarifado column is a string of a small           *)
(* vocabulary; the substring tests of inferir_local are tabulated on it.   *)
(***************************************************************************)
EXTENDS Naturals, Sequences, FiniteSets, TLC

VARIABLES
    notas,       \* sheet NOTAS: [temPat: 'id_patrimonio' column present, rows: unit cells]
    os,          \* sheet OS: sequence of service-order rows
    config,      \* sheet config: sequence of [de, para] rows
    relatorio,   \* sheet RELATORIO: sequence of state-table rows
    relOs,       \* history: the OS rows recalcular_relatorio read for `relatorio`
    pc,          \* position of main(): "idle", "salvar", "recalc"
    integrado,   \* main's local df_integrado, waiting to be saved
    run,         \* how the last run of main() ended: "none", "abortado", "concluido"
    loaded,      \* what the last load_data returned
    contratos,   \* sheet CONTRATOS: sequence of contract-registry rows
    painel,      \* the figures the last dashboard page computed
    arg,         \* argument of a helper function applied on its own
    ret          \* what the helper returned for arg

vars ==
    <<notas, os, config, relatorio, relOs, pc, integrado, run, loaded,
      contratos, painel, arg, ret>>

----------------------------------------------------------------------------
(* Bounds of the model *)

MaxLog == 2
MaxNotas == 1
MaxBatch == 2
MaxConfig == 1
MaxContratos == 1
MaxId == 3
MaxOS == 3
MaxRelatorio == 2

----------------------------------------------------------------------------
(* Cells *)

None == <<>>
Some(v) == <<v>>
IsNull(c) == c = <<>>
Val(c) == c[1]
Fillna(c, d) == IF IsNull(c) THEN d ELSE Val(c)

\* pd.to_datetime(..., errors='coerce'): an empty or unparsable date is NaT
NaT == 0

----------------------------------------------------------------------------
(* PADRONIZACAO_ASSUNTO: the fixed override table, and Series.replace(dict) *)

PADRONIZACAO_ASSUNTO ==
    [k \in {"INSTALACAO INTERNET", "Instalação Internet (descontinuado)",
            "Instalação Repetidor Wirelles", "Instalação Serviço Cortesia",
            "Instalação de Telefone", "MANUTENCAO DE REDE", "MANUTENÇÃO TÉCNICA",
            "MUDANÇA DE ENDEREÇO", "SERVIÇOS TÉCNICOS DIVERSOS",
            "UPGRADE - EQUIPAMENTO", "0.1.4 RETIRADA DE REPETIDOR WIRELESS",
            "0.1.5 RETIRADA ORDEM DE COLETA", "0.1.6 RETIRADA PONTO DE INTERNET",
            "RETIRADA ORDEM DE COLETA", "RETIRADA PONTO DE INTERNET"} |->
        CASE k \in {"INSTALACAO INTERNET", "Instalação Internet (descontinuado)"}
               -> "INSTALACAO"
          [] k \in {"Instalação Repetidor Wirelles", "SERVIÇOS TÉCNICOS DIVERSOS"}
               -> "MESH"
          [] k = "Instalação Serviço Cortesia" -> "INSTALACAO CORTESIA"
          [] k = "Instalação de Telefone" -> "INSTALACAO TELEFONE"
          [] k \in {"MANUTENCAO DE REDE", "MANUTENÇÃO TÉCNICA"} -> "MANUTENCAO"
          [] k = "MUDANÇA DE ENDEREÇO" -> "MUDANCA ENDEREÇO"
          [] k = "UPGRADE - EQUIPAMENTO" -> "UPGRADE"
          [] k = "0.1.4 RETIRADA DE REPETIDOR WIRELESS" -> "RETIRADA REPETIDOR"
          [] k \in {"0.1.5 RETIRADA ORDEM DE COLETA", "RETIRADA ORDEM DE COLETA"}
               -> "RETIRADA COLETA"
          [] OTHER -> "RETIRADA DE PONTO"]

\* the replace had the table sent 'INSTALACAO INTERNET' to another of its keys
ReplaceEncadeado(v) ==
    IF v = "INSTALACAO INTERNET" THEN "Instalação Internet (descontinuado)"
    ELSE IF v \in DOMAIN PADRONIZACAO_ASSUNTO THEN PADRONIZACAO_ASSUNTO[v] ELSE v

\* Series.replace(PADRONIZACAO_ASSUNTO) on one value (one pass, keys only)
Replace(v) == IF v \in DOMAIN PADRONIZACAO_ASSUNTO THEN PADRONIZACAO_ASSUNTO[v] ELSE v

\* the same on a nullable cell: NaN stays NaN
ReplaceCell(c) == IF IsNull(c) THEN c ELSE Some(Replace(Val(c)))

----------------------------------------------------------------------------
(* Unit identifiers *)

\* .str.replace(r'\.0$', '', regex=True)
StripDotZero(s) ==
    IF Len(s) >= 2 /\ s[Len(s) - 1] = "." /\ s[Len(s)] = "0"
    THEN SubSeq(s, 1, Len(s) - 2)
    ELSE s

\* .str.replace(r'\\,', '', regex=True): the regex matches a backslash and a comma
RECURSIVE RemoveBackslashComma(_)
RemoveBackslashComma(s) ==
    IF Len(s) < 2 THEN s
    ELSE IF s[1] = "\\" /\ s[2] = ","
         THEN RemoveBackslashComma(SubSeq(s, 3, Len(s)))
         ELSE <<s[1]>> \o RemoveBackslashComma(Tail(s))

\* .str.replace('.0', '', regex=False): every occurrence of the two characters
RECURSIVE RemoveDotZero(_)
RemoveDotZero(s) ==
    IF Len(s) < 2 THEN s
    ELSE IF s[1] = "." /\ s[2] = "0"
         THEN RemoveDotZero(SubSeq(s, 3, Len(s)))
         ELSE <<s[1]>> \o RemoveDotZero(Tail(s))

\* load_data's cleaning of OS.id_patrimonio
LimparPatrimonioLoad(s) == StripDotZero(RemoveBackslashComma(s))

\* recalcular_relatorio's cleaning of id_patrimonio (OS and NOTAS)
LimparPatrimonioRecalc(s) == StripDotZero(s)

\* load_data's cleaning of RELATORIO.PATRIMONIO (also NF and PRODUTO ID)
LimparPatrimonioRelatorio(s) == StripDotZero(RemoveBackslashComma(s))

\* load_data's id_patrimonio_str of CONTRATOS
LimparPatrimonioContratos(s) == StripDotZero(s)

\* enriquecer_com_relatorio's PAT_STR, computed on the PATRIMONIO load_data cleaned
PatStr(s) == RemoveDotZero(s)

\* code points of the characters identifiers are made of here
CharCode(c) ==
    CASE c = " " -> 32 [] c = "," -> 44 [] c = "." -> 46 [] c = "0" -> 48 [] c = "7" -> 55
      [] c = "8" -> 56 [] c = "9" -> 57 [] OTHER -> 92

\* Python's str order
RECURSIVE StrLess(_, _)
StrLess(a, b) ==
    IF Len(b) = 0 THEN FALSE
    ELSE IF Len(a) = 0 THEN TRUE
    ELSE IF a[1] # b[1] THEN CharCode(a[1]) < CharCode(b[1])
    ELSE StrLess(Tail(a), Tail(b))

----------------------------------------------------------------------------
(* Tables: rows selected by a mask, orders, sorts *)

\* df[mask]: the rows whose position is in keep, in order
Mask(rows, keep) ==
    LET idxs == SelectSeq([i \in 1..Len(rows) |-> i], LAMBDA i : i \in keep)
    IN  [k \in 1..Len(idxs) |-> rows[idxs[k]]]

Perms(n) == {p \in [1..n -> 1..n] : \A i, j \in 1..n : p[i] = p[j] => i = j}

Permute(rows, p) == [k \in 1..Len(rows) |-> rows[p[k]]]

\* the same order with na_position='first'
TsLessNaFirst(x, y) == x # y /\ (x = NaT \/ (y # NaT /\ x < y))

\* closing dates ascending, NaT last (na_position='last')
TsLess(x, y) == x # NaT /\ (y = NaT \/ x < y)

\* order of sort_values(['id_patrimonio', 'data_fechamento_OS'])
CicloLess(a, b) ==
    \/ StrLess(a.pat, b.pat)
    \/ a.pat = b.pat /\ TsLess(a.ts, b.ts)

\* a stable sort (pandas' lexsort_indexer): the one order that keeps ties in place
SortStable(rows) ==
    LET n == Len(rows)
        p == CHOOSE q \in Perms(n) :
                 \A i, j \in 1..n : i < j =>
                     /\ ~CicloLess(rows[q[j]], rows[q[i]])
                     /\ (~CicloLess(rows[q[i]], rows[q[j]]) => q[i] < q[j])
    IN  Permute(rows, p)

\* groupby('id_patrimonio').cumcount() + 1 of the row at position i
Cumcount(rows, i) == Cardinality({j \in 1..i : rows[j].pat = rows[i].pat})

\* os_df['CICLO'] = ... on a table already sorted by (id_patrimonio, data_fechamento_OS)
ComCiclo(rows) == [i \in 1..Len(rows) |-> [CICLO |-> Cumcount(rows, i)] @@ rows[i]]

\* groupby('id_patrimonio')['CICLO'].last(): the CICLO of the last row of unit u
UltimoCiclo(rows, u) ==
    LET is == {i \in 1..Len(rows) : rows[i].pat = u}
        m == CHOOSE i \in is : \A j \in is : j <= i
    IN  rows[m].CICLO

Patrimonios(rows) == {rows[i].pat : i \in 1..Len(rows)}

\* the lambda had it read 'REUTILIZADO' for every unit the merge found
StatusEquipamentoComOS(rows, u) ==
    IF u \in Patrimonios(rows) THEN "REUTILIZADO" ELSE "NOVO"

\* lambda x: 'REUTILIZADO' if pd.notna(x) and x > 1 else 'NOVO', after the left merge
StatusEquipamento(rows, u) ==
    IF u \in Patrimonios(rows) /\ UltimoCiclo(rows, u) > 1 THEN "REUTILIZADO" ELSE "NOVO"

----------------------------------------------------------------------------
(* Reading the OS sheet *)

\* pd.read_excel(sheet_name='OS'): the rows, with the index pandas gives them
LerOS(sheet) == [i \in 1..Len(sheet) |-> [idx |-> i] @@ sheet[i]]

\* dropna(subset=['id_patrimonio'])
DropnaPatrimonio(rows) == Mask(rows, {i \in 1..Len(rows) : ~IsNull(rows[i].pat)})

\* load_data: the rows with an identifier, the identifier as a cleaned string
ComPatrimonioLoad(rows) ==
    LET ficam == DropnaPatrimonio(rows)
    IN  [i \in 1..Len(ficam) |->
            [ficam[i] EXCEPT !.pat = LimparPatrimonioLoad(Val(ficam[i].pat))]]

\* recalcular_relatorio: the rows with an identifier, the identifier cleaned
ComPatrimonioRecalc(rows) ==
    LET ficam == DropnaPatrimonio(rows)
    IN  [i \in 1..Len(ficam) |->
            [ficam[i] EXCEPT !.pat = LimparPatrimonioRecalc(Val(ficam[i].pat))]]

----------------------------------------------------------------------------
(* dados.py: load_data *)

\* the same with keep='last'
DuplicatedLast(rows, i) == \E j \in (i + 1)..Len(rows) : rows[j].id = rows[i].id

\* os_df.duplicated(subset=['ID _Ordem de Serviço'], keep='first') at position i
Duplicated(rows, i) == \E j \in 1..(i - 1) : rows[j].id = rows[i].id

\* os_df.drop_duplicates(subset=['ID _Ordem de Serviço'], keep='first')
DropDuplicates(rows) == Mask(rows, {i \in 1..Len(rows) : ~Duplicated(rows, i)})

\* the cleaned, cycle-annotated event log load_data returns as 'os'
LoadOS(sheet) ==
    LET comPat == ComPatrimonioLoad(LerOS(sheet))
        semDup == DropDuplicates(comPat)
        padron == [i \in 1..Len(semDup) |->
                      [semDup[i] EXCEPT !.assunto = ReplaceCell(semDup[i].assunto)]]
    IN  ComCiclo(SortStable(padron))

\* astype(str) of a cell: text stays; of an empty cell pandas up to 2.x makes the
\* text 'nan', pandas 3 keeps it empty (nanTexto tells which build runs)
AstypeStr(c, nanTexto) ==
    IF ~IsNull(c) THEN c
    ELSE IF nanTexto THEN Some(<<"n", "a", "n">>) ELSE None

\* relatorio['PATRIMONIO'].astype(str).fillna('') of a sheet cell; the empty cell
\* of the sheet is the empty sequence here (Excel has no empty text): it becomes the
\* text 'nan', or stays missing and fillna makes it ''
PatrimonioTexto(c, nanTexto) ==
    IF c # <<>> THEN c ELSE Fillna(AstypeStr(None, nanTexto), <<>>)

\* the RELATORIO load_data returns: identifiers cleaned, STATUS_EQUIPAMENTO recomputed
LoadRelatorio(rel, osLimpo, nanTexto) ==
    [i \in 1..Len(rel) |->
        LET p == LimparPatrimonioRelatorio(PatrimonioTexto(rel[i].PATRIMONIO, nanTexto))
        IN  [rel[i] EXCEPT !.PATRIMONIO = p,
                           !.STATUS_EQUIPAMENTO = StatusEquipamento(osLimpo, p)]]

\* obs_map = dict(zip(config['MODELO'], config['OBSOLETO?'])): of two rows with the
\* same model the later wins; the rows without MODELO give a NaN key no model equals
ObsMap(cfg) ==
    LET is == {i \in 1..Len(cfg) : ~IsNull(cfg[i].modelo)}
    IN  [m \in {Val(cfg[i].modelo) : i \in is} |->
            cfg[CHOOSE i \in is :
                    /\ Val(cfg[i].modelo) = m
                    /\ \A j \in is : Val(cfg[j].modelo) = m => j <= i].obsoleto]

\* _modelos_nao_obsoletos, in the order of the list
ModelosNaoObsoletos ==
    <<"ONT ZTE F6600P", "ONU ZTE F6600P", "ROTEADOR ZTE H3601 MESH">>

\* the loop had it appended every model of the list, in obs_map or not
ConfigComModelosSempre(cfg) ==
    cfg \o [k \in 1..Len(ModelosNaoObsoletos) |->
               [modelo |-> Some(ModelosNaoObsoletos[k]), obsoleto |-> Some("Não"),
                de |-> None, para |-> None]]

\* the loop over _modelos_nao_obsoletos: a model obs_map does not have gets 'Não'
\* there and a row MODELO, OBSOLETO? at the end of config
ConfigComModelos(cfg) ==
    LET faltam == SelectSeq(ModelosNaoObsoletos, LAMBDA m : m \notin DOMAIN ObsMap(cfg))
    IN  cfg \o [k \in 1..Len(faltam) |->
                   [modelo |-> Some(faltam[k]), obsoleto |-> Some("Não"),
                    de |-> None, para |-> None]]

\* obs_map after that loop
ObsMapFinal(cfg) == ObsMap(ConfigComModelos(cfg))

\* the keys of MAPEAMENTO_DE_PARA in the order of the dict
MapeamentoChaves ==
    <<"INSTALACAO INTERNET", "Instalação Internet (descontinuado)",
      "Instalação Repetidor Wirelles", "Instalação Serviço Cortesia",
      "Instalação de Telefone", "MANUTENCAO DE REDE", "MANUTENÇÃO TÉCNICA",
      "MUDANÇA DE ENDEREÇO", "SERVIÇOS TÉCNICOS DIVERSOS", "UPGRADE - EQUIPAMENTO",
      "0.1.4 RETIRADA DE REPETIDOR WIRELESS", "0.1.5 RETIRADA ORDEM DE COLETA",
      "0.1.6 RETIRADA PONTO DE INTERNET", "RETIRADA ORDEM DE COLETA",
      "RETIRADA PONTO DE INTERNET", "Emitir Taxa", "POS VENDA (BRASILIA)">>

\* MAPEAMENTO_DE_PARA[k]
MAPEAMENTO_DE_PARA(k) ==
    IF k \in DOMAIN PADRONIZACAO_ASSUNTO THEN PADRONIZACAO_ASSUNTO[k] ELSE "****"

\* the loop over MAPEAMENTO_DE_PARA: a DE the sheet did not have gets a row DE, PARA
\* at the end of config (de_existentes is read once, before the loop)
ConfigComDePara(cfg) ==
    LET de_existentes == {Val(cfg[i].de) : i \in {k \in 1..Len(cfg) : ~IsNull(cfg[k].de)}}
        faltam == SelectSeq(MapeamentoChaves, LAMBDA k : k \notin de_existentes)
    IN  cfg \o [k \in 1..Len(faltam) |->
                   [modelo |-> None, obsoleto |-> None,
                    de |-> Some(faltam[k]), para |-> Some(MAPEAMENTO_DE_PARA(faltam[k]))]]

\* the config load_data returns
LoadConfig(cfg) == ConfigComDePara(ConfigComModelos(cfg))

\* contratos with OBSOLETO and id_patrimonio_str (the sheet has 'Descrição eqpto')
LoadContratos(sheet, cfg, nanTexto) ==
    [i \in 1..Len(sheet) |->
        LET txt == AstypeStr(sheet[i].id_patrimonio, nanTexto)
            obs == IF sheet[i].descricao \in DOMAIN ObsMapFinal(cfg)
                   THEN ObsMapFinal(cfg)[sheet[i].descricao]
                   ELSE None
        IN  [OBSOLETO |-> Fillna(obs, "Não"),
             id_patrimonio_str |-> IF IsNull(txt) THEN None ELSE Some(StripDotZero(Val(txt)))]
            @@ sheet[i]]

\* load_data had it counted the orders without unit after removing them
LoadDataContaDepois(sheetNotas, sheetOS, sheetRel, sheetConfig, sheetContratos, nanTexto) ==
    LET lido == LerOS(sheetOS)
        comPat == ComPatrimonioLoad(lido)
        osLimpo == LoadOS(sheetOS)
    IN  [feito |-> TRUE,
         os |-> osLimpo,
         relatorio |-> LoadRelatorio(sheetRel, osLimpo, nanTexto),
         contratos |-> LoadContratos(sheetContratos, sheetConfig, nanTexto),
         config |-> LoadConfig(sheetConfig),
         os_total_bruto |-> Len(lido),
         os_sem_patrimonio |-> Cardinality({i \in 1..Len(comPat) : IsNull(<<comPat[i].pat>>)}),
         os_duplicadas |-> Cardinality({i \in 1..Len(comPat) : Duplicated(comPat, i)})]

\* load_data's result: 'os', 'relatorio', 'contratos', 'config' and the '_limpeza'
\* counts
LoadData(sheetNotas, sheetOS, sheetRel, sheetConfig, sheetContratos, nanTexto) ==
    LET lido == LerOS(sheetOS)
        comPat == ComPatrimonioLoad(lido)
        osLimpo == LoadOS(sheetOS)
    IN  [feito |-> TRUE,
         os |-> osLimpo,
         relatorio |-> LoadRelatorio(sheetRel, osLimpo, nanTexto),
         contratos |-> LoadContratos(sheetContratos, sheetConfig, nanTexto),
         config |-> LoadConfig(sheetConfig),
         os_total_bruto |-> Len(lido),
         os_sem_patrimonio |-> Cardinality({i \in 1..Len(lido) : IsNull(lido[i].pat)}),
         os_duplicadas |-> Cardinality({i \in 1..Len(comPat) : Duplicated(comPat, i)})]

NaoCarregado ==
    [feito |-> FALSE, os |-> <<>>, relatorio |-> <<>>, contratos |-> <<>>,
     config |-> <<>>, os_total_bruto |-> 0, os_sem_patrimonio |-> 0,
     os_duplicadas |-> 0]

----------------------------------------------------------------------------
(* atualizar_mes.py: recalcular_relatorio *)

\* the keywords of inferir_local that the upper-cased Almoxarifado text contains
Keywords(almox) ==
    CASE almox = "RMA FORNECEDOR" -> {"RMA"}
      [] almox = "ALMOXARIFADO PRINCIPAL" -> {"ALMOX", "PRINCIPAL"}
      [] almox = "Descontinuado" -> {"DESCONTINUADO"}
      [] almox = "RMA ALMOX" -> {"RMA", "ALMOX"}
      [] almox = "Almox - descontinuado" -> {"ALMOX", "DESCONTINUADO"}
      [] OTHER -> {}

\* inferir_local had it looked at the status before the RMA text
inferir_local_status_primeiro(status, almox) ==
    IF status = "Emprestado" THEN "INSTALADO"
    ELSE IF "RMA" \in Keywords(almox) THEN "RMA"
    ELSE IF "DESCONTINUADO" \in Keywords(almox) THEN "DESCONTINUADO"
    ELSE IF Keywords(almox) \cap {"ALMOX", "PRINCIPAL", "DISTRIBUIC", "CONFERIDO"} # {}
         THEN "EM ESTOQUE"
    ELSE "COM TÉCNICO"

\* inferir_local on the filled STATUS COMODATO and ALMOXARIFADO; the status texts
\* are 'Emprestado' and 'Sem Uso', of which only the first contains 'Emprestado'
inferir_local(status, almox) ==
    IF "RMA" \in Keywords(almox) THEN "RMA"
    ELSE IF status = "Emprestado" THEN "INSTALADO"
    ELSE IF "DESCONTINUADO" \in Keywords(almox) THEN "DESCONTINUADO"
    ELSE IF Keywords(almox) \cap {"ALMOX", "PRINCIPAL", "DISTRIBUIC", "CONFERIDO"} # {}
         THEN "EM ESTOQUE"
    ELSE IF status = "Sem Uso" THEN "COM TÉCNICO"
    ELSE "COM TÉCNICO"

\* the orders os_df.sort_values('data_fechamento_OS') can give: one key, so pandas
\* sorts the dated rows with numpy's quicksort, which is not stable (rows with equal
\* dates come out in an order the build decides), and appends the NaT rows in place
QuicksortOrders(rows) ==
    LET n == Len(rows)
    IN  {p \in Perms(n) :
            \A i, j \in 1..n : i < j =>
                /\ ~TsLess(rows[p[j]].ts, rows[p[i]].ts)
                /\ (rows[p[i]].ts = NaT /\ rows[p[j]].ts = NaT => p[i] < p[j])}

\* groupby('id_patrimonio').last() on one column: the last non-null cell of the
\* unit's rows, NaN when all are null
GroupLast(rows, u, col) ==
    LET is == {i \in 1..Len(rows) : rows[i].pat = u /\ ~IsNull(col[i])}
    IN  IF is = {} THEN None
        ELSE col[CHOOSE i \in is : \A j \in is : j <= i]

\* the columns of os_sorted that ultima_os keeps, cell by cell
DataCell(r) == IF r.ts = NaT THEN None ELSE Some(r.ts)
AssuntoCell(r) == r.assunto
StatusCell(r) == r.status
AlmoxCell(r) == r.almox

\* ultima_os: the row groupby('id_patrimonio').last() gives unit u
UltimaOS(sorted, u) ==
    [data_fechamento_OS |-> GroupLast(sorted, u, [i \in 1..Len(sorted) |-> DataCell(sorted[i])]),
     assunto |-> GroupLast(sorted, u, [i \in 1..Len(sorted) |-> AssuntoCell(sorted[i])]),
     status_comodato |-> GroupLast(sorted, u, [i \in 1..Len(sorted) |-> StatusCell(sorted[i])]),
     Almoxarifado |-> GroupLast(sorted, u, [i \in 1..Len(sorted) |-> AlmoxCell(sorted[i])])]

SemOS ==
    [data_fechamento_OS |-> None, assunto |-> None, status_comodato |-> None,
     Almoxarifado |-> None]

\* rel.merge(ultima_os, left_on='PATRIMONIO_STR', right_on='id_patrimonio', how='left'):
\* the cells one NOTAS row gets
MergeUltimaOS(sorted, u) ==
    IF u \in Patrimonios(sorted) THEN UltimaOS(sorted, u) ELSE SemOS

\* os_sorted_ciclo: the CICLO table of recalcular_relatorio
RecalcCiclo(sheetOS) ==
    ComCiclo(SortStable(ComPatrimonioRecalc(LerOS(sheetOS))))

\* one row of rel_final
LinhaRelatorio(u, m, ciclos) ==
    LET status == Fillna(m.status_comodato, "Sem Uso")
        almox  == Fillna(m.Almoxarifado, "")
    IN  [PATRIMONIO |-> u,
         ASSUNTO_OS |-> Replace(Fillna(m.assunto, "SEM OS")),
         DATA_ULTIMA_OS |-> Fillna(m.data_fechamento_OS, NaT),
         STATUS_COMODATO |-> status,
         ALMOXARIFADO |-> almox,
         STATUS_EQUIPAMENTO |-> StatusEquipamento(ciclos, u),
         LOCAL_EQUIPAMENTO |-> inferir_local(status, almox)]

\* rel_final had the merges been how='outer': the units of the OS sheet that no
\* NOTAS row names get a row too
RelatorioOuter(rowsNotas, sheetOS, p) ==
    LET os_df  == ComPatrimonioRecalc(LerOS(sheetOS))
        sorted == Permute(os_df, p)
        ciclos == RecalcCiclo(sheetOS)
        comNF  == {LimparPatrimonioRecalc(rowsNotas[i]) : i \in 1..Len(rowsNotas)}
        semNF  == Mask(ciclos, {i \in 1..Len(ciclos) : ciclos[i].CICLO = 1 /\ ciclos[i].pat \notin comNF})
    IN  [i \in 1..Len(rowsNotas) |->
            LET u == LimparPatrimonioRecalc(rowsNotas[i])
            IN  LinhaRelatorio(u, MergeUltimaOS(sorted, u), ciclos)]
        \o
        [k \in 1..Len(semNF) |->
            LinhaRelatorio(semNF[k].pat, MergeUltimaOS(sorted, semNF[k].pat), ciclos)]

\* rel_final, given the order p the one-key sort produced
Relatorio(rowsNotas, sheetOS, p) ==
    LET os_df  == ComPatrimonioRecalc(LerOS(sheetOS))
        sorted == Permute(os_df, p)
        ciclos == RecalcCiclo(sheetOS)
    IN  [i \in 1..Len(rowsNotas) |->
            LET u == LimparPatrimonioRecalc(rowsNotas[i])
            IN  LinhaRelatorio(u, MergeUltimaOS(sorted, u), ciclos)]

\* every RELATORIO recalcular_relatorio can write for these sheets
Relatorios(rowsNotas, sheetOS) ==
    LET os_df == ComPatrimonioRecalc(LerOS(sheetOS))
    IN  {Relatorio(rowsNotas, sheetOS, p) : p \in QuicksortOrders(os_df)}

----------------------------------------------------------------------------
(* atualizar_mes.py: padronizar_colunas, validar_colunas_obrigatorias, integrar_os *)

\* the new file as read: the cells of a column the file does not have are absent
LerNovo(lote) ==
    [i \in 1..Len(lote.rows) |->
        [lote.rows[i] EXCEPT
            !.raw = IF "Descrição Assunto" \in lote.cols THEN @ ELSE None,
            !.assunto = IF "ASSUNTO PADRONIZADO" \in lote.cols THEN @ ELSE None]]

\* dict(zip(config['DE'].dropna(), config['PARA'].dropna())): the two columns lose
\* their empty cells separately, are paired by position, and a later pair wins
AssuntoMap(cfg) ==
    LET des   == SelectSeq([i \in 1..Len(cfg) |-> cfg[i].de], LAMBDA c : ~IsNull(c))
        paras == SelectSeq([i \in 1..Len(cfg) |-> cfg[i].para], LAMBDA c : ~IsNull(c))
        n     == IF Len(des) < Len(paras) THEN Len(des) ELSE Len(paras)
    IN  [k \in {Val(des[i]) : i \in 1..n} |->
            Val(paras[CHOOSE i \in 1..n :
                          /\ Val(des[i]) = k
                          /\ \A j \in 1..n : Val(des[j]) = k => j <= i])]

\* df['Descrição Assunto'].map(assunto_map).fillna('****') on one cell
MapAssunto(raw, cfg) ==
    IF ~IsNull(raw) /\ Val(raw) \in DOMAIN AssuntoMap(cfg)
    THEN AssuntoMap(cfg)[Val(raw)]
    ELSE "****"

\* padronizar_colunas leaves through sys.exit(1) when neither column exists
PadronizarFalha(cols) ==
    "ASSUNTO PADRONIZADO" \notin cols /\ "Descrição Assunto" \notin cols

\* padronizar_colunas: ASSUNTO PADRONIZADO generated when absent, then the
\* canonical replace over the column
padronizar_colunas(rows, cols, cfg) ==
    [i \in 1..Len(rows) |->
        [rows[i] EXCEPT !.assunto =
            IF "ASSUNTO PADRONIZADO" \in cols
            THEN ReplaceCell(rows[i].assunto)
            ELSE Some(Replace(MapAssunto(rows[i].raw, cfg)))]]

obrigatorias == {"ID _Ordem de Serviço", "data_fechamento_OS", "id_patrimonio"}

\* validar_colunas_obrigatorias leaves through sys.exit(1)
ValidarFalha(cols) == obrigatorias \ cols # {}

\* an empty 'ID _Ordem de Serviço' cell
SemNumero == 0

\* astype(str) of the 'ID _Ordem de Serviço' column at row i. pandas reads a column
\* of whole numbers as int64 and one that also has an empty cell as float64: the
\* texts are '7' in the first case, '7.0' and 'nan' in the second (a text is kept
\* as the digits and what follows them)
IdStr(rows, i) ==
    IF rows[i].id = SemNumero THEN [digitos |-> SemNumero, final |-> "nan"]
    ELSE IF \E k \in 1..Len(rows) : rows[k].id = SemNumero
         THEN [digitos |-> rows[i].id, final |-> ".0"]
         ELSE [digitos |-> rows[i].id, final |-> ""]

\* set(df_base['ID _Ordem de Serviço'].dropna().astype(str))
IdsBase(df_base) ==
    {IdStr(df_base, i) : i \in {k \in 1..Len(df_base) : df_base[k].id # SemNumero}}

\* integrar_os had it put the new orders before the base
integrar_os_novos_primeiro(df_novo, df_base) ==
    LET semDupl  == DropDuplicates(df_novo)
        ids_base == IdsBase(df_base)
        novos    == Mask(semDupl, {i \in 1..Len(semDupl) : IdStr(semDupl, i) \notin ids_base})
    IN  IF Len(novos) = 0
        THEN [df |-> df_base, qtd |-> 0]
        ELSE [df |-> novos \o df_base, qtd |-> Len(novos)]

\* integrar_os: (df_integrado, qtd_novas)
integrar_os(df_novo, df_base) ==
    LET semDupl  == DropDuplicates(df_novo)
        ids_base == IdsBase(df_base)
        novos    == Mask(semDupl, {i \in 1..Len(semDupl) : IdStr(semDupl, i) \notin ids_base})
    IN  IF Len(novos) = 0
        THEN [df |-> df_base, qtd |-> 0]
        ELSE [df |-> df_base \o novos, qtd |-> Len(novos)]

----------------------------------------------------------------------------
(* The dashboard pages *)

\* no page has computed anything yet
SemPainel == [pagina |-> "nenhuma"]

\* a figure that is a quotient: a value num/den, Python's ZeroDivisionError, or NaN
Quociente(n, d) ==
    IF d = 0 THEN [tipo |-> "erro", num |-> n, den |-> 0]
    ELSE [tipo |-> "valor", num |-> n, den |-> d]

\* the literal 0 of the guards' else branch
Zero == [tipo |-> "valor", num |-> 0, den |-> 1]

\* n / d if d > 0 else 0
TaxaGuardada(n, d) == IF d > 0 THEN Quociente(n, d) ELSE Zero

\* the non-empty cells of a column, as a set: set(col.dropna())
Conjunto(col) == {Val(col[i]) : i \in {k \in 1..Len(col) : ~IsNull(col[k])}}

\* days of a month in the calendar of the model: month m is the dates 2m-1 and 2m
DiasMes == 2

\* dados.py periodo_do_mes: the first and the last instant of month m
periodo_do_mes(m) == [ini |-> (m - 1) * DiasMes + 1, fim |-> m * DiasMes]

\* dt.to_period('M') of a closing date
MesDe(t) == (t + DiasMes - 1) \div DiasMes

\* dados.py get_meses_disponiveis: the months that have an order with closing date
get_meses_disponiveis(rows) ==
    {MesDe(rows[i].ts) : i \in {k \in 1..Len(rows) : rows[k].ts # NaT}}

\* dados.py get_os_periodo: both ends included; a comparison with NaT is False
get_os_periodo(rows, ini, fim) ==
    Mask(rows, {i \in 1..Len(rows) :
                   rows[i].ts # NaT /\ rows[i].ts >= ini /\ rows[i].ts <= fim})

\* os_df[os_df['data_fechamento_OS'] <= data_fim]
OsAte(rows, fim) ==
    Mask(rows, {i \in 1..Len(rows) : rows[i].ts # NaT /\ rows[i].ts <= fim})

\* str.contains('INSTALAC', case=False, na=False) on the ASSUNTO PADRONIZADO texts
ContemInstalac(c) ==
    ~IsNull(c) /\ Val(c) \in {"INSTALACAO", "INSTALACAO INTERNET"}

\* the rows of installations
Instalacoes(rows) ==
    Mask(rows, {i \in 1..Len(rows) : ContemInstalac(rows[i].assunto)})

\* dados.py enriquecer_com_relatorio: the RELATORIO rows whose PAT_STR is one of the
\* identifiers given
enriquecer_com_relatorio(pats, rel) ==
    Mask(rel, {i \in 1..Len(rel) : PatStr(rel[i].PATRIMONIO) \in pats})

\* the keys of groupby(['NF', 'DESCRICAO']): rows with a missing key are in no group
ChavesNF(rel) ==
    {<<rel[i].NF, Val(rel[i].DESCRICAO)>> :
        i \in {k \in 1..Len(rel) : ~IsNull(rel[k].DESCRICAO)}}

\* the rows of the group (nf, modelo)
GrupoNF(rel, g) ==
    Mask(rel, {i \in 1..Len(rel) : rel[i].NF = g[1] /\ rel[i].DESCRICAO = Some(g[2])})

\* the table both activation functions build from the enriched rows: per invoice
\* and model the units bought, the units activated and the guarded rate
TabelaAtivacoes(rel_enriq, rel) ==
    [g \in ChavesNF(rel_enriq) |->
        [total_nf |-> Len(GrupoNF(rel, g)),
         ativados |-> Len(GrupoNF(rel_enriq, g)),
         Taxa |-> TaxaGuardada(Len(GrupoNF(rel_enriq, g)), Len(GrupoNF(rel, g)))]]

\* df['Ativados'].sum()
TotalAtivados(rel_enriq) ==
    Cardinality({i \in 1..Len(rel_enriq) : ~IsNull(rel_enriq[i].DESCRICAO)})

\* 1_Analise_Mensal.py calcular_ativacoes: installations closed within the period
calcular_ativacoes(rows, rel, ini, fim) ==
    LET os_inst == Instalacoes(get_os_periodo(rows, ini, fim))
        rel_enriq == enriquecer_com_relatorio(Patrimonios(os_inst), rel)
    IN  [tabela |-> TabelaAtivacoes(rel_enriq, rel),
         total |-> TotalAtivados(rel_enriq)]

\* 1_Analise_Mensal.py calcular_ativacoes_acumuladas: installations closed up to
\* the end of the period
calcular_ativacoes_acumuladas(rows, rel, fim) ==
    LET os_inst == Instalacoes(OsAte(rows, fim))
        rel_enriq == enriquecer_com_relatorio(Patrimonios(os_inst), rel)
    IN  [tabela |-> TabelaAtivacoes(rel_enriq, rel),
         total |-> TotalAtivados(rel_enriq)]

\* 2_Auditoria.py calcular_integridade, on what load_data returned
calcular_integridade(d) ==
    LET pat_rel == {d.relatorio[i].PATRIMONIO : i \in 1..Len(d.relatorio)}
        pat_os  == Patrimonios(d.os)
        pat_contratos ==
            Conjunto([i \in 1..Len(d.contratos) |-> d.contratos[i].id_patrimonio_str])
    IN  [os_sem_patrimonio |-> d.os_sem_patrimonio,
         qtd_pat_sem_os |-> Cardinality(pat_rel \ pat_os),
         qtd_pat_os_sem_rel |-> Cardinality(pat_os \ pat_rel),
         qtd_sem_nf |-> Cardinality(pat_contratos \ pat_rel),
         modelos_sem_mapeamento |->
             Conjunto([i \in 1..Len(d.relatorio) |-> d.relatorio[i].DESCRICAO])
             \ Conjunto([i \in 1..Len(d.config) |-> d.config[i].modelo]),
         qtd_assunto_nao_mapeado |->
             Cardinality({i \in 1..Len(d.os) : d.os[i].assunto = Some("****")})]

\* 2_Auditoria.py calcular_qualidade_ingestao: the counts it passes on
calcular_qualidade_ingestao(d) ==
    [total_os |-> IF \A i \in 1..Len(d.os) : d.os[i].ts = NaT THEN 0 ELSE Len(d.os),
     os_bruto |-> d.os_total_bruto,
     os_sem_patrimonio |-> d.os_sem_patrimonio,
     duplicados_removidos |-> d.os_duplicadas]

\* 2_Auditoria.py calcular_cruzamentos: RELATORIO against the active contracts
calcular_cruzamentos(d) ==
    LET ativos == Mask(d.contratos,
                       {i \in 1..Len(d.contratos) : d.contratos[i].status_contrato = "Ativo"})
        pat_ativos == Conjunto([i \in 1..Len(ativos) |-> ativos[i].id_patrimonio_str])
        pat_rel == {d.relatorio[i].PATRIMONIO : i \in 1..Len(d.relatorio)}
    IN  [ativos_sem_relatorio |-> Cardinality(pat_ativos \ pat_rel),
         total_ativos |-> Cardinality(pat_ativos),
         cobertura_relatorio |->
             TaxaGuardada(Cardinality(pat_ativos \cap pat_rel) * 100, Cardinality(pat_ativos)),
         rel_sem_contrato_ativo |-> Cardinality(pat_rel \ pat_ativos)]

\* 2_Auditoria.py main: the findings the page shows for what load_data returned
PaginaAuditoria(d) ==
    [pagina |-> "auditoria",
     integ |-> calcular_integridade(d),
     qual |-> calcular_qualidade_ingestao(d),
     cruz |-> calcular_cruzamentos(d)]

\* 1_Analise_Mensal.py calcular_manutencao: orders of the period per type, split
\* by the cycle number of the order
calcular_manutencao(rows, ini, fim) ==
    LET os_per == get_os_periodo(rows, ini, fim)
    IN  [tipo \in {"MANUTENCAO", "MESH", "UPGRADE"} |->
            LET os_tipo == {i \in 1..Len(os_per) : os_per[i].assunto = Some(tipo)}
                novos == Cardinality({i \in os_tipo : os_per[i].CICLO = 1})
                reutilizados == Cardinality({i \in os_tipo : os_per[i].CICLO > 1})
            IN  [total |-> Cardinality(os_tipo),
                 novos |-> novos,
                 reutilizados |-> reutilizados,
                 pct_novos |-> TaxaGuardada(novos, Cardinality(os_tipo)),
                 pct_reutilizados |-> TaxaGuardada(reutilizados, Cardinality(os_tipo))]]

\* groupby('ID_cliente').size().mean(): orders without client are in no group, and
\* the mean of no group is NaN
MediaPorCliente(rows) ==
    LET comCliente == {i \in 1..Len(rows) : ~IsNull(rows[i].cliente)}
        clientes == {rows[i].cliente : i \in comCliente}
    IN  IF clientes = {} THEN [tipo |-> "nan", num |-> 0, den |-> 0]
        ELSE Quociente(Cardinality(comCliente), Cardinality(clientes))

\* 1_Analise_Mensal.py calcular_parque_rede: the active contracts, the obsolete
\* among them, and the mean number of orders per client of the obsolete units
calcular_parque_rede(contr, rows) ==
    LET ativos == Mask(contr, {i \in 1..Len(contr) : contr[i].status_contrato = "Ativo"})
        obs == Mask(ativos, {i \in 1..Len(ativos) : ativos[i].OBSOLETO = "Sim"})
        pat_obs == Conjunto([i \in 1..Len(obs) |-> obs[i].id_patrimonio_str])
        os_obs == Mask(rows, {i \in 1..Len(rows) : rows[i].pat \in pat_obs})
    IN  [total_ativos |-> Len(ativos),
         obs_ativos |-> Len(obs),
         nao_obs_ativos |->
             Cardinality({i \in 1..Len(ativos) : ativos[i].OBSOLETO = "Não"}),
         media_chamados_obs |-> IF Len(os_obs) > 0 THEN MediaPorCliente(os_obs) ELSE Zero]

\* Visao_Geral.py calcular_kpis_parque: the figures of the fleet
calcular_kpis_parque(contr, rel) ==
    LET em(local) == Cardinality({i \in 1..Len(rel) : rel[i].LOCAL_EQUIPAMENTO = local})
    IN  [total_rede |->
             Cardinality({i \in 1..Len(contr) : contr[i].status_contrato = "Ativo"}),
         total_com_nf |-> Len(rel),
         instalados |-> em("INSTALADO"),
         em_estoque |-> em("EM ESTOQUE"),
         em_rma |-> em("RMA"),
         com_tecnico |-> em("COM TÉCNICO"),
         taxa_utilizacao |-> TaxaGuardada(em("INSTALADO") * 100, Len(rel))]

\* relatorio[['NF', 'DESCRICAO']].drop_duplicates(): a missing model is a value here
CombinacoesNF(rel) == {<<rel[i].NF, rel[i].DESCRICAO>> : i \in 1..Len(rel)}

\* Visao_Geral.py gerar_resumo_nf: per invoice and model the units bought and where
\* they are; the rows of a combination are found with ==, which no missing model passes
gerar_resumo_nf(rel) ==
    [g \in CombinacoesNF(rel) |->
        LET df_nf == Mask(rel, {i \in 1..Len(rel) :
                                   /\ rel[i].NF = g[1]
                                   /\ ~IsNull(g[2])
                                   /\ rel[i].DESCRICAO = g[2]})
            em(local) ==
                Cardinality({i \in 1..Len(df_nf) : df_nf[i].LOCAL_EQUIPAMENTO = local})
            ativados_novos ==
                Cardinality({i \in 1..Len(df_nf) :
                                /\ df_nf[i].LOCAL_EQUIPAMENTO = "INSTALADO"
                                /\ df_nf[i].STATUS_EQUIPAMENTO = "NOVO"})
        IN  [COMPRADOS |-> Len(df_nf),
             ATIVADOS_NOVOS |-> ativados_novos,
             TAXA_ATIVACAO |-> TaxaGuardada(ativados_novos, Len(df_nf)),
             PERC_ESTOQUE |-> TaxaGuardada(em("EM ESTOQUE"), Len(df_nf)),
             PERC_RMA |-> TaxaGuardada(em("RMA"), Len(df_nf))]]

----------------------------------------------------------------------------
(* Inputs *)

OsIds == {1, 2}

Datas == {NaT, 1, 2}

\* OS.id_patrimonio cells: empty, a float-formatted number, a plain number
PatCells == {None, Some(<<"7", ".", "0">>), Some(<<"8">>)}

\* NOTAS.id_patrimonio after astype(str)
NotasCells == {<<"7">>, <<"8", ".", "0">>}

\* the other cells of a service order; orders with an odd number are installations
\* on loan with no warehouse text, the others are maintenance with the unit in RMA
Evento(i, p, t) ==
    IF i % 2 = 1
    THEN [id |-> i, pat |-> p, ts |-> t, raw |-> Some("INSTALACAO INTERNET"),
          assunto |-> Some("INSTALACAO INTERNET"), status |-> Some("Emprestado"),
          almox |-> None]
    ELSE [id |-> i, pat |-> p, ts |-> t, raw |-> Some("MANUTENÇÃO TÉCNICA"),
          assunto |-> Some("MANUTENCAO"), status |-> None,
          almox |-> Some("RMA FORNECEDOR")]

Eventos == {Evento(i, p, t) : i \in OsIds, p \in PatCells, t \in Datas}

Logs(lo, hi) == UNION {[1..n -> Eventos] : n \in lo..hi}

NotasRows == UNION {[1..n -> NotasCells] : n \in 0..MaxNotas}

\* rows of the config sheet: DE/PARA pairs, MODELO rows with neither (an obsolete
\* model, and a model of load_data's list flagged by hand), and a DE whose PARA
\* nobody has filled in yet
ConfigRows ==
    {[de |-> Some("Instalação Internet (descontinuado)"), para |-> Some("MESH"),
      modelo |-> None, obsoleto |-> None],
     [de |-> Some("Troca de Equipamento"), para |-> Some("UPGRADE - EQUIPAMENTO"),
      modelo |-> None, obsoleto |-> None],
     [de |-> None, para |-> None, modelo |-> Some("ONT HUAWEI HG8245"),
      obsoleto |-> Some("Sim")],
     [de |-> None, para |-> None, modelo |-> Some("ONU ZTE F6600P"),
      obsoleto |-> Some("Sim")],
     [de |-> Some("VISITA TECNICA"), para |-> None, modelo |-> None, obsoleto |-> None]}

Configs == UNION {[1..n -> ConfigRows] : n \in 0..MaxConfig}

RawsLote == {"Instalação Internet (descontinuado)", "Troca de Equipamento"}

\* the ASSUNTO PADRONIZADO a month's file carries for a raw category, when it has
\* the column
AssuntoDoArquivo(r) ==
    IF r = "Instalação Internet (descontinuado)" THEN "INSTALACAO" ELSE "UPGRADE"

\* rows of a month's file; one of them has no order number
LoteEventos ==
    {[Evento(i, Some(<<"7", ".", "0">>), 1) EXCEPT
         !.raw = Some(r), !.assunto = Some(AssuntoDoArquivo(r))] :
        i \in OsIds, r \in RawsLote}
    \cup {Evento(2, None, 1)}
    \cup {[Evento(1, Some(<<"7", ".", "0">>), 1) EXCEPT !.id = SemNumero]}

\* the cells of a service order the dashboard reads: a finished installation, a
\* maintenance that sent the unit to RMA, an order of a category config does not map
EventoPainel(tipo, p, t, c) ==
    CASE tipo = "inst" ->
             [id |-> 0, pat |-> p, ts |-> t, cliente |-> c,
              raw |-> Some("INSTALACAO INTERNET"), assunto |-> Some("INSTALACAO"),
              status |-> Some("Emprestado"), almox |-> None]
      [] tipo = "manut" ->
             [id |-> 0, pat |-> p, ts |-> t, cliente |-> c,
              raw |-> Some("MANUTENÇÃO TÉCNICA"), assunto |-> Some("MANUTENCAO"),
              status |-> None, almox |-> Some("RMA FORNECEDOR")]
      [] OTHER ->
             [id |-> 0, pat |-> p, ts |-> t, cliente |-> c,
              raw |-> Some("Troca de Equipamento"), assunto |-> Some("****"),
              status |-> None, almox |-> None]

\* the orders an OS sheet of the dashboard is made of: unit 8 installed in month 2,
\* in month 3 or without closing date, unit 7.07 installed in month 3, unmapped
\* orders with and without unit, a maintenance of unit 8 without client
EventosPainel ==
    {EventoPainel("inst", Some(<<"8", ".", "0">>), 4, Some("C1")),
     EventoPainel("inst", Some(<<"8", ".", "0">>), 5, Some("C1")),
     EventoPainel("inst", Some(<<"8", ".", "0">>), NaT, Some("C1")),
     EventoPainel("inst", Some(<<"7", ".", "0", "7">>), 5, None),
     EventoPainel("nm", None, 4, None),
     EventoPainel("nm", Some(<<"8", ".", "0">>), 5, None),
     EventoPainel("manut", Some(<<"8", ".", "0">>), 5, None)}

\* OS sheets as the ingestion leaves them: every order has a number of its own
LogsPainel ==
    UNION {{[k \in 1..n |-> [f[k] EXCEPT !.id = k]] : f \in [1..n -> EventosPainel]} :
              n \in 0..MaxLog}

\* RELATORIO rows as persisted, with the invoice and model columns of NOTAS; the
\* third is an invoice line whose unit and model cells are empty
LinhasRelatorioPainel ==
    {[NF |-> "100", DESCRICAO |-> Some("ONT HUAWEI HG8245"), PATRIMONIO |-> <<"8">>,
      LOCAL_EQUIPAMENTO |-> "INSTALADO", STATUS_EQUIPAMENTO |-> "NOVO"],
     [NF |-> "100", DESCRICAO |-> Some("ONT HUAWEI HG8245"),
      PATRIMONIO |-> <<"7", ".", "0", "7">>,
      LOCAL_EQUIPAMENTO |-> "EM ESTOQUE", STATUS_EQUIPAMENTO |-> "NOVO"],
     [NF |-> "200", DESCRICAO |-> None, PATRIMONIO |-> <<>>,
      LOCAL_EQUIPAMENTO |-> "COM TÉCNICO", STATUS_EQUIPAMENTO |-> "NOVO"]}

\* RELATORIO sheets; NOTAS may name a unit in two lines, and then RELATORIO has
\* two rows of it
RelatoriosPainel == UNION {[1..n -> LinhasRelatorioPainel] : n \in 0..MaxRelatorio}

\* CONTRATOS rows: an active contract of unit 8, an active contract whose unit cell
\* is empty, a cancelled contract of unit 9
LinhasContratos ==
    {[id_patrimonio |-> Some(<<"8", ".", "0">>), status_contrato |-> "Ativo",
      descricao |-> "ONT HUAWEI HG8245"],
     [id_patrimonio |-> None, status_contrato |-> "Ativo",
      descricao |-> "ONT HUAWEI HG8245"],
     [id_patrimonio |-> Some(<<"9">>), status_contrato |-> "Cancelado",
      descricao |-> "ONU ZTE F6600P"]}

Contratos == UNION {[1..n -> LinhasContratos] : n \in 0..MaxContratos}

\* characters of a raw unit identifier: digits, the dot of a number read as float,
\* a blank, and the backslash and comma load_data looks for
IdChars == {"7", "0", ".", " ", "\\", ","}

\* raw unit identifiers, after astype(str)
IdsBrutos == UNION {[1..n -> IdChars] : n \in 1..MaxId}

\* STATUS COMODATO and ALMOXARIFADO texts of a RELATORIO row
StatusTextos == {"Emprestado", "Sem Uso", "Devolvido"}

AlmoxTextos ==
    {"", "RMA FORNECEDOR", "ALMOXARIFADO PRINCIPAL", "Descontinuado", "RMA ALMOX",
     "Almox - descontinuado", "Residência do cliente"}

\* what a helper is applied to: a raw identifier, or the two texts of a row
Argumentos ==
    {[f |-> "id", raw |-> r] : r \in IdsBrutos}
    \cup {[f |-> "local", status |-> st, almox |-> a] :
              st \in StatusTextos, a \in AlmoxTextos}

TodasColunas ==
    obrigatorias \cup {"Descrição Assunto", "ASSUNTO PADRONIZADO"}

\* a month's file: complete, without ASSUNTO PADRONIZADO (the usual export),
\* or lacking a column the run needs
Lotes ==
    {[cols |-> c, rows |-> r] :
        c \in {TodasColunas, TodasColunas \ {"ASSUNTO PADRONIZADO"}},
        r \in UNION {[1..n -> LoteEventos] : n \in 1..MaxBatch}}
    \cup
    {[cols |-> c, rows |-> <<e>>] :
        c \in {obrigatorias, TodasColunas \ {"id_patrimonio"}},
        e \in {[Evento(1, None, 1) EXCEPT !.raw = Some("Troca de Equipamento")]}}

----------------------------------------------------------------------------
(* Actions *)

\* dados.py load_data, run once per dashboard process (st.cache_data)
Carregar ==
    /\ ~loaded.feito
    /\ \E nanTexto \in BOOLEAN :
           loaded' = LoadData(notas.rows, os, relatorio, config, contratos, nanTexto)
    /\ UNCHANGED <<notas, os, config, relatorio, relOs, pc, integrado, run>>
    /\ UNCHANGED <<contratos, painel, arg, ret>>

\* an invoice line is typed into the NOTAS sheet between two runs
RegistrarNota(c) ==
    /\ pc = "idle"
    /\ notas.temPat
    /\ Len(notas.rows) < MaxNotas
    /\ notas' = [notas EXCEPT !.rows = Append(@, c)]
    /\ run' = "none"
    /\ UNCHANGED <<os, config, relatorio, relOs, pc, integrado, loaded>>
    /\ UNCHANGED <<contratos, painel, arg, ret>>

\* one raw identifier through every place that cleans identifiers
LimparIdentificador ==
    /\ arg # <<>> /\ arg.f = "id"
    /\ ret = None
    /\ ret' = Some([os |-> LimparPatrimonioLoad(arg.raw),
                    relatorio |-> LimparPatrimonioRelatorio(arg.raw),
                    contratos |-> LimparPatrimonioContratos(arg.raw),
                    recalc |-> LimparPatrimonioRecalc(arg.raw),
                    enriquecer |-> PatStr(LimparPatrimonioRelatorio(arg.raw))])
    /\ UNCHANGED <<notas, os, config, relatorio, relOs, pc, integrado, run, loaded>>
    /\ UNCHANGED <<contratos, painel, arg>>

\* rel_final.apply(inferir_local, axis=1) on one row
InferirLocal ==
    /\ arg # <<>> /\ arg.f = "local"
    /\ ret = None
    /\ ret' = Some(inferir_local(arg.status, arg.almox))
    /\ UNCHANGED <<notas, os, config, relatorio, relOs, pc, integrado, run, loaded>>
    /\ UNCHANGED <<contratos, painel, arg>>

\* the page 1_Analise_Mensal.py with the filters left at 'Todos': the user picks a
\* month that has orders; the month before it is the comparison
AnaliseMensal ==
    /\ loaded.feito
    /\ \E mes \in get_meses_disponiveis(loaded.os) :
           LET atual == periodo_do_mes(mes)
               anterior == periodo_do_mes(mes - 1)
               ativ == calcular_ativacoes(loaded.os, loaded.relatorio, atual.ini, atual.fim)
               ativ_ant == calcular_ativacoes(loaded.os, loaded.relatorio,
                                              anterior.ini, anterior.fim)
               acum == calcular_ativacoes_acumuladas(loaded.os, loaded.relatorio, atual.fim)
               acum_ant == calcular_ativacoes_acumuladas(loaded.os, loaded.relatorio,
                                                         anterior.fim)
               total_com_nf == Len(loaded.relatorio)
           IN  painel' = [pagina |-> "analise",
                          mes |-> mes,
                          ativ |-> ativ,
                          ativ_ant |-> ativ_ant,
                          acum |-> acum,
                          acum_ant |-> acum_ant,
                          taxa_ativ_mes |-> TaxaGuardada(ativ.total * 100, total_com_nf),
                          taxa_ativ_ant |-> TaxaGuardada(ativ_ant.total * 100, total_com_nf),
                          taxa_acum |-> TaxaGuardada(acum.total * 100, total_com_nf),
                          taxa_acum_ant |-> TaxaGuardada(acum_ant.total * 100, total_com_nf),
                          manut |-> calcular_manutencao(loaded.os, atual.ini, atual.fim),
                          manut_ant |->
                              calcular_manutencao(loaded.os, anterior.ini, anterior.fim),
                          parque |-> calcular_parque_rede(loaded.contratos, loaded.os)]
    /\ UNCHANGED <<notas, os, config, relatorio, relOs, pc, integrado, run, loaded>>
    /\ UNCHANGED <<contratos, arg, ret>>

\* the page Visao_Geral.py: the fleet figures and the table per invoice
VisaoGeral ==
    /\ loaded.feito
    /\ painel' = [pagina |-> "visao",
                  kpis |-> calcular_kpis_parque(loaded.contratos, loaded.relatorio),
                  resumo |-> gerar_resumo_nf(loaded.relatorio)]
    /\ UNCHANGED <<notas, os, config, relatorio, relOs, pc, integrado, run, loaded>>
    /\ UNCHANGED <<contratos, arg, ret>>

\* the page 2_Auditoria.py: integrity, ingestion quality and cross-checks
Auditoria ==
    /\ loaded.feito
    /\ painel' = PaginaAuditoria(loaded)
    /\ UNCHANGED <<notas, os, config, relatorio, relOs, pc, integrado, run, loaded>>
    /\ UNCHANGED <<contratos, arg, ret>>

\* main, steps 1 to 4: read the month's file, padronizar_colunas,
\* validar_colunas_obrigatorias, read the OS sheet, integrar_os
Iniciar(lote) ==
    /\ pc = "idle"
    /\ Len(os) + Len(lote.rows) <= MaxOS
    /\ IF PadronizarFalha(lote.cols) \/ ValidarFalha(lote.cols)
       THEN /\ run' = "abortado"
            /\ UNCHANGED <<pc, integrado>>
       ELSE LET df_novo == padronizar_colunas(LerNovo(lote), lote.cols, config)
                r       == integrar_os(df_novo, os)
            IN  IF r.qtd > 0
                THEN /\ pc' = "salvar"
                     /\ integrado' = r.df
                     /\ run' = "none"
                ELSE /\ run' = "concluido"
                     /\ UNCHANGED <<pc, integrado>>
    /\ UNCHANGED <<notas, os, config, relatorio, relOs, loaded>>
    /\ UNCHANGED <<contratos, painel, arg, ret>>

\* main, step 5: the OS sheet is rewritten with df_integrado and the workbook saved
SalvarOS ==
    /\ pc = "salvar"
    /\ os' = integrado
    /\ pc' = "recalc"
    /\ UNCHANGED <<notas, config, relatorio, relOs, integrado, run, loaded>>
    /\ UNCHANGED <<contratos, painel, arg, ret>>

\* main, step 6: recalcular_relatorio, which writes RELATORIO and saves the workbook,
\* or returns with an error message when NOTAS has no 'id_patrimonio'
Recalcular ==
    /\ pc = "recalc"
    /\ IF notas.temPat
       THEN /\ relatorio' \in Relatorios(notas.rows, os)
            /\ relOs' = os
       ELSE UNCHANGED <<relatorio, relOs>>
    /\ pc' = "idle"
    /\ run' = "concluido"
    /\ integrado' = <<>>
    /\ UNCHANGED <<notas, os, config, loaded>>
    /\ UNCHANGED <<contratos, painel, arg, ret>>

----------------------------------------------------------------------------
(* Specifications *)

\* The monthly ingestion: a workbook with an empty OS sheet and a RELATORIO computed
\* from it, then months' files ingested one after the other and invoices registered
Init ==
    /\ notas \in [temPat : BOOLEAN, rows : NotasRows]
    /\ os = <<>>
    /\ config \in Configs
    /\ relatorio \in (IF notas.temPat THEN Relatorios(notas.rows, os) ELSE {<<>>})
    /\ relOs = os
    /\ pc = "idle"
    /\ integrado = <<>>
    /\ run = "none"
    /\ loaded = NaoCarregado
    /\ contratos = <<>>
    /\ painel = SemPainel
    /\ arg = <<>>
    /\ ret = <<>>

Next ==
    \/ \E lote \in Lotes : Iniciar(lote)
    \/ SalvarOS
    \/ Recalcular
    \/ \E c \in NotasCells : RegistrarNota(c)

Spec == Init /\ [][Next]_vars

\* load_data and recalcular_relatorio as functions of the workbook: every OS sheet of
\* up to MaxLog rows, main about to call recalcular_relatorio, the dashboard loading
InitClean ==
    /\ notas \in [temPat : {TRUE}, rows : NotasRows]
    /\ os \in Logs(1, MaxLog)
    /\ config = <<>>
    /\ relatorio = <<>>
    /\ relOs = <<>>
    /\ pc = "recalc"
    /\ integrado = os
    /\ run = "none"
    /\ loaded = NaoCarregado
    /\ contratos = <<>>
    /\ painel = SemPainel
    /\ arg = <<>>
    /\ ret = <<>>

NextClean ==
    \/ Recalcular
    \/ Carregar

SpecClean == InitClean /\ [][NextClean]_vars

\* The dashboard: a workbook as the ingestion and the registries' owners left it,
\* loaded once, then the pages computing their figures from what was loaded
InitPainel ==
    /\ notas = [temPat |-> TRUE, rows |-> <<>>]
    /\ os \in LogsPainel
    /\ config \in Configs
    /\ relatorio \in RelatoriosPainel
    /\ relOs = os
    /\ pc = "idle"
    /\ integrado = <<>>
    /\ run = "none"
    /\ loaded = NaoCarregado
    /\ contratos \in Contratos
    /\ painel = SemPainel
    /\ arg = <<>>
    /\ ret = <<>>

NextPainel ==
    \/ Carregar
    \/ Auditoria
    \/ AnaliseMensal
    \/ VisaoGeral

SpecPainel == InitPainel /\ [][NextPainel]_vars

\* The helpers applied on their own, to every argument of Argumentos
InitFuncoes ==
    /\ notas = [temPat |-> TRUE, rows |-> <<>>]
    /\ os = <<>>
    /\ config = <<>>
    /\ relatorio = <<>>
    /\ relOs = <<>>
    /\ pc = "idle"
    /\ integrado = <<>>
    /\ run = "none"
    /\ loaded = NaoCarregado
    /\ contratos = <<>>
    /\ painel = SemPainel
    /\ arg \in Argumentos
    /\ ret = None

NextFuncoes ==
    \/ LimparIdentificador
    \/ InferirLocal

SpecFuncoes == InitFuncoes /\ [][NextFuncoes]_vars

----------------------------------------------------------------------------
(* Claims *)

\* the units of the OS sheet, as recalcular_relatorio identifies them
UnidadesOS == Patrimonios(ComPatrimonioRecalc(LerOS(os)))

\* the units of the NOTAS sheet
UnidadesNF == {LimparPatrimonioRecalc(notas.rows[k]) : k \in 1..Len(notas.rows)}

\* the cycle numbers of a table: per unit exactly 1..N without repeat, increasing
\* with the closing date, the rows without a closing date after the dated ones
CiclosOk(rows) ==
    \A u \in Patrimonios(rows) :
        LET is == {i \in 1..Len(rows) : rows[i].pat = u}
        IN  /\ {rows[i].CICLO : i \in is} = 1..Cardinality(is)
            /\ \A i, j \in is : rows[i].CICLO = rows[j].CICLO => i = j
            /\ \A i, j \in is :
                   rows[i].ts # NaT /\ rows[j].ts # NaT /\ rows[i].ts < rows[j].ts
                       => rows[i].CICLO < rows[j].CICLO
            /\ \A i, j \in is :
                   rows[i].ts = NaT /\ rows[j].ts # NaT => rows[i].CICLO > rows[j].CICLO

\* C1: after load_data cleaned the event log, and after recalcular_relatorio
\* recalculated, every unit with N retained events has the cycle numbers 1..N, no gap,
\* no repeat, in closing-date order, and an event without closing date has a cycle
\* number greater than every dated event of its unit.
C1_CicloMonotono ==
    /\ loaded.feito => CiclosOk(loaded.os)
    /\ pc = "idle" => CiclosOk(RecalcCiclo(os))

\* C1's case: both functions ran on a sheet where a unit has an event without
\* closing date placed before a dated one
C1_Witness ==
    /\ loaded.feito
    /\ pc = "idle"
    /\ \E i, j \in 1..Len(loaded.os) :
           /\ loaded.os[i].pat = loaded.os[j].pat
           /\ loaded.os[i].ts = NaT /\ loaded.os[j].ts # NaT
           /\ loaded.os[i].idx < loaded.os[j].idx
           /\ loaded.os[i].CICLO = 2

\* the locations the cascade of inferir_local can give
CascataLocais == {"RMA", "INSTALADO", "DESCONTINUADO", "EM ESTOQUE", "COM TÉCNICO"}

\* C2: an invoiced unit with no event at all has, in the state table, a location of
\* its own (none of the cascade's results) and the status NOVO.
C2_SemRegistro ==
    pc = "idle" =>
        \A i \in 1..Len(relatorio) :
            relatorio[i].PATRIMONIO \notin UnidadesOS =>
                /\ relatorio[i].LOCAL_EQUIPAMENTO \notin CascataLocais
                /\ relatorio[i].STATUS_EQUIPAMENTO = "NOVO"

\* C3: an ingested event whose raw category is a key of the override table has the
\* override table's value as its canonical category, whatever the config sheet holds.
C3_OverridePrecede ==
    \A i \in 1..Len(os) :
        ~IsNull(os[i].raw) /\ Val(os[i].raw) \in DOMAIN PADRONIZACAO_ASSUNTO
            => os[i].assunto = Some(PADRONIZACAO_ASSUNTO[Val(os[i].raw)])

\* the events of unit u, and whether e sorts last among them
EventosDe(u) ==
    LET os_df == ComPatrimonioRecalc(LerOS(os))
    IN  {os_df[i] : i \in {k \in 1..Len(os_df) : os_df[k].pat = u}}

Ultimo(e, u) == \A f \in EventosDe(u) : ~TsLess(e.ts, f.ts)

\* C4: the event-derived attributes of the row of an invoiced unit with events all
\* come from one event, the unit's latest, also where that event has an empty field.
C4_UmaUnicaOS ==
    pc = "idle" =>
        \A i \in 1..Len(relatorio) :
            relatorio[i].PATRIMONIO \in UnidadesOS =>
                \E e \in EventosDe(relatorio[i].PATRIMONIO) :
                    /\ Ultimo(e, relatorio[i].PATRIMONIO)
                    /\ relatorio[i].DATA_ULTIMA_OS = e.ts
                    /\ relatorio[i].ASSUNTO_OS = Replace(Fillna(e.assunto, "SEM OS"))
                    /\ relatorio[i].STATUS_COMODATO = Fillna(e.status, "Sem Uso")
                    /\ relatorio[i].ALMOXARIFADO = Fillna(e.almox, "")
                    /\ relatorio[i].LOCAL_EQUIPAMENTO =
                           inferir_local(Fillna(e.status, "Sem Uso"), Fillna(e.almox, ""))

\* C5: every unit of the state table is the unit of some invoice line; a unit with
\* events and no invoice line has no row.
C5_EscopoNotas ==
    /\ \A i \in 1..Len(relatorio) : relatorio[i].PATRIMONIO \in UnidadesNF
    /\ \A u \in UnidadesOS \ UnidadesNF :
           \A i \in 1..Len(relatorio) : relatorio[i].PATRIMONIO # u

\* C5's case: the state table was recalculated, has rows, and the OS sheet has a
\* unit that no invoice line names
C5_Witness ==
    /\ pc = "idle"
    /\ relatorio # <<>>
    /\ UnidadesOS \ UnidadesNF # {}
    /\ UnidadesOS \cap UnidadesNF # {}

\* C6: on the same sheets the recalculation gives the same state table, however the
\* sort orders events with equal or missing closing dates.
C6_Determinismo ==
    pc = "idle" => \A r \in Relatorios(notas.rows, os) : r = relatorio

\* C7: the persisted RELATORIO is never seen beside a persisted OS sheet newer than
\* the one it was computed from.
C7_SnapshotCompleto == relOs = os

\* C8: a run that meets an absent required column (in the month's file, or
\* 'id_patrimonio' in NOTAS) writes nothing: no step of it changes the persisted OS
\* sheet or the persisted RELATORIO.
C8_AbortaSemEscrever ==
    [][(run' = "abortado" \/ ~notas.temPat) => (os' = os /\ relatorio' = relatorio)]_vars

\* C9: when a run has completed, the persisted RELATORIO is the state inferred from
\* NOTAS and OS as they are then, also when the run added no event.
C9_RecalculoIntegral ==
    (run = "concluido" /\ notas.temPat) => relatorio \in Relatorios(notas.rows, os)

\* C10: of the events with a unit identifier, load_data keeps exactly one per
\* service-order number, the first in sheet order, and os_duplicadas counts the
\* events removed for that.
C10_PrimeiraOcorrencia ==
    loaded.feito =>
        LET comPat == {i \in 1..Len(os) : ~IsNull(os[i].pat)}
        IN  /\ \A i \in comPat :
                   LET mesmos   == {j \in comPat : os[j].id = os[i].id}
                       primeiro == CHOOSE j \in mesmos : \A k \in mesmos : j <= k
                       ficam    == {k \in 1..Len(loaded.os) : loaded.os[k].id = os[i].id}
                   IN  /\ Cardinality(ficam) = 1
                       /\ \A k \in ficam : loaded.os[k].idx = primeiro
            /\ \A k \in 1..Len(loaded.os) : loaded.os[k].idx \in comPat
            /\ loaded.os_duplicadas = Cardinality(comPat) - Len(loaded.os)

\* C10's case: two rows with a unit identifier share a service-order number and
\* differ otherwise; load_data removed one
C10_Witness ==
    /\ loaded.feito
    /\ loaded.os_duplicadas = 1
    /\ \E i, j \in 1..Len(os) :
           /\ i < j
           /\ os[i].id = os[j].id
           /\ os[i] # os[j]
           /\ ~IsNull(os[i].pat) /\ ~IsNull(os[j].pat)

\* the orders of the OS sheet that have no unit identifier
OrdensSemPatrimonio == {i \in 1..Len(os) : IsNull(os[i].pat)}

\* C11: no order without unit identifier is in the cleaned event log, and the count
\* load_data reports and the audit page shows is the number of such orders in the
\* sheet; a sheet with such orders is loaded like any other (load_data has no exit
\* that depends on the rows, C11_Witness is a load of such a sheet).
C11_SemPatrimonioContado ==
    /\ loaded.feito =>
           /\ \A k \in 1..Len(loaded.os) : loaded.os[k].idx \notin OrdensSemPatrimonio
           /\ loaded.os_sem_patrimonio = Cardinality(OrdensSemPatrimonio)
    /\ painel.pagina = "auditoria" =>
           /\ painel.integ.os_sem_patrimonio = Cardinality(OrdensSemPatrimonio)
           /\ painel.qual.os_sem_patrimonio = Cardinality(OrdensSemPatrimonio)

\* C11's case: the sheet has an order without unit identifier and one with, it was
\* loaded and the audit page has shown its counts
C11_Witness ==
    /\ painel.pagina = "auditoria"
    /\ Cardinality(OrdensSemPatrimonio) = 1
    /\ Len(loaded.os) = 1

\* str.strip(): the blanks at both ends removed
RECURSIVE StripEsquerda(_)
StripEsquerda(s) == IF Len(s) > 0 /\ s[1] = " " THEN StripEsquerda(Tail(s)) ELSE s

RECURSIVE StripDireita(_)
StripDireita(s) ==
    IF Len(s) > 0 /\ s[Len(s)] = " " THEN StripDireita(SubSeq(s, 1, Len(s) - 1)) ELSE s

\* the normalisation rule of the specification: blanks around the identifier removed,
\* then one trailing ".0", nothing else touched
NormaDaRegra(s) == StripDotZero(StripDireita(StripEsquerda(s)))

\* C12: the normalised identifier of an event (load_data, recalcular_relatorio) and
\* of a state-table row is the raw one without surrounding blanks and without one
\* trailing ".0", and otherwise unchanged.
C12_NormalizacaoDaRegra ==
    (ret # None /\ arg.f = "id") =>
        /\ Val(ret).os = NormaDaRegra(arg.raw)
        /\ Val(ret).relatorio = NormaDaRegra(arg.raw)
        /\ Val(ret).recalc = NormaDaRegra(arg.raw)

\* C13: a raw identifier gets the same normalised text at every place that
\* normalises identifiers: load_data (event log, state table, contract registry),
\* recalcular_relatorio and enriquecer_com_relatorio.
C13_UmaSoNormalizacao ==
    (ret # None /\ arg.f = "id") =>
        /\ Val(ret).relatorio = Val(ret).os
        /\ Val(ret).contratos = Val(ret).os
        /\ Val(ret).recalc = Val(ret).os
        /\ Val(ret).enriquecer = Val(ret).os

        /\ Val(ret).enriquecer = Val(ret).os

\* the greatest cycle number of unit u in a cycle-annotated log, 0 without events
MaxCiclo(rows, u) ==
    LET cs == {rows[i].CICLO : i \in {k \in 1..Len(rows) : rows[k].pat = u}}
    IN  IF cs = {} THEN 0 ELSE CHOOSE c \in cs : \A d \in cs : d <= c

\* the new/reused status the rule gives a unit
StatusDaRegra(rows, u) == IF MaxCiclo(rows, u) > 1 THEN "REUTILIZADO" ELSE "NOVO"

\* C14: in the state table recalcular_relatorio writes and in the one load_data
\* returns, a unit is REUTILIZADO exactly when its greatest cycle number is above 1,
\* and NOVO otherwise, a unit without events included.
C14_NovoOuReutilizado ==
    /\ pc = "idle" =>
           \A i \in 1..Len(relatorio) :
               relatorio[i].STATUS_EQUIPAMENTO =
                   StatusDaRegra(RecalcCiclo(os), relatorio[i].PATRIMONIO)
    /\ loaded.feito =>
           \A i \in 1..Len(loaded.relatorio) :
               loaded.relatorio[i].STATUS_EQUIPAMENTO =
                   StatusDaRegra(loaded.os, loaded.relatorio[i].PATRIMONIO)

\* C14's case: a unit with two events got REUTILIZADO from both functions
C14_Witness ==
    /\ pc = "idle"
    /\ loaded.feito
    /\ \E i \in 1..Len(loaded.relatorio) :
           /\ loaded.relatorio[i].STATUS_EQUIPAMENTO = "REUTILIZADO"
           /\ relatorio[i].STATUS_EQUIPAMENTO = "REUTILIZADO"
           /\ MaxCiclo(loaded.os, loaded.relatorio[i].PATRIMONIO) = 2

\* the result the cascade of the specification gives two texts: the first rule that
\* matches, in the order RMA, on loan, discontinued, warehouse, with technician
LocalDaRegra(status, almox) ==
    CASE "RMA" \in Keywords(almox) -> "RMA"
      [] "RMA" \notin Keywords(almox) /\ status = "Emprestado" -> "INSTALADO"
      [] Keywords(almox) \cap {"RMA"} = {} /\ status # "Emprestado"
             /\ "DESCONTINUADO" \in Keywords(almox) -> "DESCONTINUADO"
      [] Keywords(almox) \cap {"RMA", "DESCONTINUADO"} = {} /\ status # "Emprestado"
             /\ Keywords(almox) \cap {"ALMOX", "PRINCIPAL", "DISTRIBUIC", "CONFERIDO"} # {}
             -> "EM ESTOQUE"
      [] OTHER -> "COM TÉCNICO"

\* C15: inferir_local gives the result of the first matching rule of the fixed order
\* (RMA text, on loan, discontinued text, warehouse text, else with technician); a
\* unit on loan whose warehouse text contains RMA is in RMA.
C15_CascataOrdenada ==
    (ret # None /\ arg.f = "local") =>
        /\ Val(ret) = LocalDaRegra(arg.status, arg.almox)
        /\ (arg.status = "Emprestado" /\ "RMA" \in Keywords(arg.almox)) => Val(ret) = "RMA"

\* C15's case: the row of a unit on loan whose warehouse text contains RMA went
\* through inferir_local
C15_Witness ==
    /\ ret # None
    /\ arg.f = "local"
    /\ arg.status = "Emprestado"
    /\ arg.almox = "RMA FORNECEDOR"
    /\ Val(ret) = "RMA"

\* the units of the active rows of the CONTRATOS sheet: the identifiers of the rows
\* that have one
UnidadesAtivas ==
    {StripDotZero(Val(contratos[i].id_patrimonio)) :
        i \in {k \in 1..Len(contratos) :
                   /\ contratos[k].status_contrato = "Ativo"
                   /\ ~IsNull(contratos[k].id_patrimonio)}}

\* C16: the audit's count of active units without invoice is the number of distinct
\* unit identifiers with an active contract and no row in the state table.
C16_AtivosSemNota ==
    painel.pagina = "auditoria" =>
        painel.cruz.ativos_sem_relatorio =
            Cardinality(UnidadesAtivas \
                        {loaded.relatorio[i].PATRIMONIO : i \in 1..Len(loaded.relatorio)})

\* a figure that is a number, and 0 when its denominator is zero
Definida(q) == q.tipo = "valor" /\ q.den > 0

\* the rates of an activation table
TabelaDefinida(t) == \A g \in DOMAIN t.tabela : Definida(t.tabela[g].Taxa)

\* C17: every rate and average the pages compute is a number, 0 when its
\* denominator is zero: never an error, never NaN.
C17_TaxasDefinidas ==
    /\ painel.pagina = "analise" =>
           /\ TabelaDefinida(painel.ativ) /\ TabelaDefinida(painel.ativ_ant)
           /\ TabelaDefinida(painel.acum) /\ TabelaDefinida(painel.acum_ant)
           /\ Definida(painel.taxa_ativ_mes) /\ Definida(painel.taxa_ativ_ant)
           /\ Definida(painel.taxa_acum) /\ Definida(painel.taxa_acum_ant)
           /\ \A tipo \in DOMAIN painel.manut :
                  /\ Definida(painel.manut[tipo].pct_novos)
                  /\ Definida(painel.manut[tipo].pct_reutilizados)
                  /\ Definida(painel.manut_ant[tipo].pct_novos)
                  /\ Definida(painel.manut_ant[tipo].pct_reutilizados)
           /\ Definida(painel.parque.media_chamados_obs)
    /\ painel.pagina = "visao" =>
           /\ Definida(painel.kpis.taxa_utilizacao)
           /\ \A g \in DOMAIN painel.resumo :
                  /\ Definida(painel.resumo[g].TAXA_ATIVACAO)
                  /\ Definida(painel.resumo[g].PERC_ESTOQUE)
                  /\ Definida(painel.resumo[g].PERC_RMA)
    /\ painel.pagina = "auditoria" => Definida(painel.cruz.cobertura_relatorio)

\* the count a table shows for a group: a group without row counts nothing
Ativados(t, g) == IF g \in DOMAIN t.tabela THEN t.tabela[g].ativados ELSE 0

\* the units of group g that have an installation closed from ini to fim, by the
\* identifiers load_data gave the events and the state table
UnidadesInstaladas(g, ini, fim) ==
    {i \in 1..Len(loaded.relatorio) :
        /\ loaded.relatorio[i].NF = g[1]
        /\ loaded.relatorio[i].DESCRICAO = Some(g[2])
        /\ \E k \in 1..Len(loaded.os) :
               /\ loaded.os[k].pat = loaded.relatorio[i].PATRIMONIO
               /\ ContemInstalac(loaded.os[k].assunto)
               /\ loaded.os[k].ts # NaT
               /\ loaded.os[k].ts >= ini
               /\ loaded.os[k].ts <= fim}

\* the cumulative figures are at least the period's and never decrease
AcumuladoMonotono ==
    painel.pagina = "analise" =>
        \A g \in ChavesNF(loaded.relatorio) :
            /\ Ativados(painel.acum, g) >= Ativados(painel.ativ, g)
            /\ Ativados(painel.acum, g) >= Ativados(painel.acum_ant, g)

\* C18: for the month P of the page and every invoice group, the in-period count is
\* the number of units with an installation closed within P, the cumulative count the
\* number of units with an installation closed up to the end of P (so the cumulative
\* figure is at least the period's and at least the previous month's), and an order
\* without closing date is in neither.
C18_PeriodoEAcumulado ==
    painel.pagina = "analise" =>
        \A g \in ChavesNF(loaded.relatorio) :
            /\ Ativados(painel.ativ, g) =
                   Cardinality(UnidadesInstaladas(g, periodo_do_mes(painel.mes).ini,
                                                  periodo_do_mes(painel.mes).fim))
            /\ Ativados(painel.ativ_ant, g) =
                   Cardinality(UnidadesInstaladas(g, periodo_do_mes(painel.mes - 1).ini,
                                                  periodo_do_mes(painel.mes - 1).fim))
            /\ Ativados(painel.acum, g) =
                   Cardinality(UnidadesInstaladas(g, 1, periodo_do_mes(painel.mes).fim))
            /\ Ativados(painel.acum, g) >= Ativados(painel.ativ, g)
            /\ Ativados(painel.acum, g) >= Ativados(painel.acum_ant, g)

\* the rows load_data put after the rows of the sheet
Acrescentadas == SubSeq(loaded.config, Len(config) + 1, Len(loaded.config))

\* a row of one of the models load_data knows as not obsolete, flagged 'Não', for a
\* model the sheet did not have
LinhaDeModelo(r) ==
    /\ \E k \in 1..Len(ModelosNaoObsoletos) : r.modelo = Some(ModelosNaoObsoletos[k])
    /\ r.obsoleto = Some("Não")
    /\ IsNull(r.de) /\ IsNull(r.para)
    /\ \A i \in 1..Len(config) : config[i].modelo # r.modelo

\* a row of a canonical DE/PARA pair whose DE the sheet did not have
LinhaDePara(r) ==
    /\ IsNull(r.modelo) /\ IsNull(r.obsoleto)
    /\ \E k \in 1..Len(MapeamentoChaves) :
           /\ r.de = Some(MapeamentoChaves[k])
           /\ r.para = Some(MAPEAMENTO_DE_PARA(MapeamentoChaves[k]))
    /\ \A i \in 1..Len(config) : config[i].de # r.de

\* C19: the config load_data returns is the sheet's rows, unchanged and in their
\* order, followed only by rows it appended: a model of its list with 'Não' when the
\* sheet lacks the model, a canonical DE/PARA pair when the sheet lacks the DE, each
\* at most once.
C19_ConfigSoAcrescenta ==
    loaded.feito =>
        /\ Len(loaded.config) >= Len(config)
        /\ SubSeq(loaded.config, 1, Len(config)) = config
        /\ \A k \in 1..Len(Acrescentadas) :
               LinhaDeModelo(Acrescentadas[k]) \/ LinhaDePara(Acrescentadas[k])
        /\ \A j, k \in 1..Len(Acrescentadas) :
               Acrescentadas[j] = Acrescentadas[k] => j = k

\* C19's case: the sheet had a model of the list flagged by hand, or a canonical DE
\* with a PARA of its own; load_data kept the row and appended the others
C19_Witness ==
    /\ loaded.feito
    /\ Len(config) = 1
    /\ \/ config[1].modelo = Some("ONU ZTE F6600P") /\ config[1].obsoleto = Some("Sim")
       \/ config[1].de = Some("Instalação Internet (descontinuado)")
    /\ loaded.config[1] = config[1]
    /\ Len(Acrescentadas) = Len(ModelosNaoObsoletos) + Len(MapeamentoChaves) - 1

\* the orders of the OS sheet that carry the sentinel of an unmapped category
OrdensNaoMapeadas == {i \in 1..Len(os) : os[i].assunto = Some("****")}

\* C20: the audit's count of unmapped events is the number of events of the log
\* that carry the sentinel "****": none of them is left out of the tally.
C20_NaoMapeadosContados ==
    painel.pagina = "auditoria" =>
        painel.integ.qtd_assunto_nao_mapeado = Cardinality(OrdensNaoMapeadas)

\* the models of the CONTRATOS sheet that got OBSOLETO from fillna('Não'): obs_map,
\* the models load_data added to it included, does not have them
ModelosPorOmissao ==
    {contratos[i].descricao :
        i \in {k \in 1..Len(contratos) :
                   contratos[k].descricao \notin DOMAIN ObsMapFinal(config)}}

\* C21: every model that got the obsolescence flag by default, being absent from
\* the classification table, is in the audit's finding of models without mapping.
C21_OmissaoRegistrada ==
    painel.pagina = "auditoria" =>
        ModelosPorOmissao \subseteq painel.integ.modelos_sem_mapeamento

\* C22: a step of a monthly run leaves every event of the log in it, with its
\* stored fields and at its place; what a run changes in the log comes after them.
C22_SoAcrescenta ==
    [][Len(os') >= Len(os) /\ SubSeq(os', 1, Len(os)) = os]_vars

\* C22's case: a run has just saved the log of an earlier run with new events
\* after it
C22_Witness ==
    /\ pc = "recalc"
    /\ Len(relOs) > 0
    /\ Len(os) > Len(relOs)
    /\ SubSeq(os, 1, Len(relOs)) = relOs

\* the order numbers of the log, one per order that has a number
NumerosRepetidos ==
    \E i, j \in 1..Len(os) : i # j /\ os[i].id # SemNumero /\ os[i].id = os[j].id

\* C23: the log starts without repeated order number and no sequence of monthly
\* runs puts two orders with the same number in it.
C23_NumeroUnico == ~NumerosRepetidos

\* a state table in which some unit has two rows
UnidadeRepetida(rel) ==
    \E i, j \in 1..Len(rel) : i < j /\ rel[i].PATRIMONIO = rel[j].PATRIMONIO

\* the state table without the second and later rows of a unit
SemRepetidas(rel) ==
    Mask(rel, {i \in 1..Len(rel) :
                  \A j \in 1..(i - 1) : rel[j].PATRIMONIO # rel[i].PATRIMONIO})

\* C24: a unit in two invoice lines is loaded and audited without abort, and the
\* audit reports it: its findings are not the ones it shows for the same data with
\* the unit in one line only.
C24_RepetidaReportada ==
    (painel.pagina = "auditoria" /\ UnidadeRepetida(loaded.relatorio)) =>
        painel # PaginaAuditoria([loaded EXCEPT !.relatorio = SemRepetidas(@)])

\* the units of the events of the OS sheet: the identifiers, cleaned as load_data
\* cleans them, of the orders that have one
UnidadesDoLog ==
    {LimparPatrimonioLoad(Val(os[i].pat)) : i \in {k \in 1..Len(os) : ~IsNull(os[k].pat)}}

\* the units of the RELATORIO sheet: the cleaned identifiers of the rows that have one
UnidadesDaTabela ==
    {LimparPatrimonioRelatorio(relatorio[i].PATRIMONIO) :
        i \in {k \in 1..Len(relatorio) : relatorio[k].PATRIMONIO # <<>>}}

\* C25: the audit's counts of units with events but no invoice and of invoiced
\* units without events are the sizes of the two set differences of the cleaned
\* unit identifiers; a record without unit identifier is a unit of neither set.
C25_DiferencasExatas ==
    painel.pagina = "auditoria" =>
        /\ painel.integ.qtd_pat_os_sem_rel = Cardinality(UnidadesDoLog \ UnidadesDaTabela)
        /\ painel.integ.qtd_pat_sem_os = Cardinality(UnidadesDaTabela \ UnidadesDoLog)

\* the event of unit u that carries the unit's greatest cycle number
EventoDoMaiorCiclo(u) ==
    LET ciclos == RecalcCiclo(os)
    IN  ciclos[CHOOSE i \in 1..Len(ciclos) :
                   ciclos[i].pat = u /\ ciclos[i].CICLO = MaxCiclo(ciclos, u)]

\* C26: the event recalcular_relatorio takes as the latest of an invoiced unit is
\* the one with the unit's greatest cycle number: the row's date, category, status
\* and warehouse are that event's, also with equal or missing closing dates.
C26_UltimoEMaiorCiclo ==
    pc = "idle" =>
        \A i \in 1..Len(relatorio) :
            relatorio[i].PATRIMONIO \in UnidadesOS =>
                LET e == EventoDoMaiorCiclo(relatorio[i].PATRIMONIO)
                IN  /\ relatorio[i].DATA_ULTIMA_OS = e.ts
                    /\ relatorio[i].ASSUNTO_OS = Replace(Fillna(e.assunto, "SEM OS"))
                    /\ relatorio[i].STATUS_COMODATO = Fillna(e.status, "Sem Uso")
                    /\ relatorio[i].ALMOXARIFADO = Fillna(e.almox, "")

\* the canonical categories: the values of the override table
Canonicos == {PADRONIZACAO_ASSUNTO[k] : k \in DOMAIN PADRONIZACAO_ASSUNTO}

\* the categories the replace meets: keys, values, the sentinels of ingestion and
\* of recalcular_relatorio
Categorias == DOMAIN PADRONIZACAO_ASSUNTO \cup Canonicos \cup {"****", "SEM OS"}

\* C27: no value of the override table is one of its keys, so the replace leaves a
\* canonical category as it is and twice is once; the category ingestion stored for
\* an event is the one load_data returns for it and the one recalcular_relatorio
\* writes for a unit is the stored category of one of the unit's events.
C27_PadronizacaoIdempotente ==
    /\ Canonicos \cap DOMAIN PADRONIZACAO_ASSUNTO = {}
    /\ \A v \in Canonicos : Replace(v) = v
    /\ \A v \in Categorias : Replace(Replace(v)) = Replace(v)
    /\ \A i \in 1..Len(os) : ReplaceCell(os[i].assunto) = os[i].assunto
    /\ LET carregadas == LoadOS(os)
       IN  \A k \in 1..Len(carregadas) :
               carregadas[k].assunto = os[carregadas[k].idx].assunto
    /\ (pc = "idle" /\ relOs = os) =>
           \A i \in 1..Len(relatorio) :
               relatorio[i].PATRIMONIO \in UnidadesOS =>
                   relatorio[i].ASSUNTO_OS \in
                       {Fillna(e.assunto, "SEM OS") : e \in EventosDe(relatorio[i].PATRIMONIO)}

\* C27's case: the month's file carried 'INSTALACAO INTERNET', ingestion stored
\* 'INSTALACAO', and the recalculation wrote it for the unit
C27_Witness ==
    /\ pc = "idle" /\ relOs = os
    /\ \E i \in 1..Len(os) :
           os[i].raw = Some("INSTALACAO INTERNET") /\ os[i].assunto = Some("INSTALACAO")
    /\ \E i \in 1..Len(relatorio) :
           relatorio[i].PATRIMONIO \in UnidadesOS /\ relatorio[i].ASSUNTO_OS = "INSTALACAO"

\* C28: the cleaning counts add up: the orders of the sheet are those removed for
\* lack of a unit identifier, those removed as repeated numbers and those of the
\* cleaned log, in what load_data returns and in the four figures the audit shows.
C28_ContagensConservadas ==
    /\ loaded.feito =>
           /\ loaded.os_total_bruto = Len(os)
           /\ loaded.os_total_bruto =
                  loaded.os_sem_patrimonio + loaded.os_duplicadas + Len(loaded.os)
    /\ painel.pagina = "auditoria" =>
           painel.qual.os_bruto =
               painel.qual.os_sem_patrimonio + painel.qual.duplicados_removidos
                   + painel.qual.total_os

\* the PARA cell of the last row of cfg whose DE is k
ParaDaLinha(cfg, k) ==
    LET is == {i \in 1..Len(cfg) : cfg[i].de = Some(k)}
    IN  cfg[CHOOSE i \in is : \A j \in is : j <= i].para

\* the map built from cfg has, for each DE of cfg, the PARA of the DE's own row: a
\* DE whose row has no PARA is not mapped, and nothing else is a key
MapaPorLinha(cfg) ==
    LET des == {Val(cfg[i].de) : i \in {k \in 1..Len(cfg) : ~IsNull(cfg[k].de)}}
    IN  /\ DOMAIN AssuntoMap(cfg) \subseteq des
        /\ \A k \in des :
               IF IsNull(ParaDaLinha(cfg, k))
               THEN k \notin DOMAIN AssuntoMap(cfg)
               ELSE /\ k \in DOMAIN AssuntoMap(cfg)
                    /\ AssuntoMap(cfg)[k] = Val(ParaDaLinha(cfg, k))

\* C30: the category map padronizar_colunas builds from the config sheet, and the
\* assunto_map load_data builds from the config it returns, give each DE the PARA
\* of the same row, also when rows lack the DE, the PARA or both.
C30_DeParaDaMesmaLinha ==
    /\ MapaPorLinha(config)
    /\ loaded.feito => MapaPorLinha(loaded.config)

\* C29: for every invoiced unit the NOVO/REUTILIZADO status recalcular_relatorio
\* wrote in RELATORIO is the status load_data computes for the row when it loads
\* the same workbook.
C29_MesmoStatus ==
    (pc = "idle" /\ loaded.feito /\ Len(loaded.relatorio) = Len(relatorio)) =>
        \A i \in 1..Len(relatorio) :
            loaded.relatorio[i].STATUS_EQUIPAMENTO = relatorio[i].STATUS_EQUIPAMENTO

====
